---------------------------- MODULE Spec2Model ----------------------------
(***************************************************************************)
(* A model of rusticsearch's query parsers (match_query::parse,            *)
(* or_query::parse) and of its bulk endpoint (view_post_bulk).             *)
(*                                                                         *)
(* JSON values are records [k |-> kind, v |-> payload].  A JSON object is  *)
(* rustc_serialize's BTreeMap<String, Json>: a sequence of <<key, value>>  *)
(* pairs in ascending key order, which is the order the code iterates it.  *)
(* A JSON string is the sequence of its whitespace-separated words.  An    *)
(* f64 is a fixed-point number counted in halves (see F64).                *)
(***************************************************************************)
EXTENDS Integers, Sequences, FiniteSets, TLC

VARIABLES
    context,      \* QueryParseContext.index: the field mappings of the index
    json,         \* the Json handed to the parser
    parser,       \* which parse function the request runs: "match" | "or"
    result,       \* the Result<Query, QueryParseError> returned, or NoResult
    parsed,       \* how many array elements or_query::parse handed to parse_query
    indices,      \* System.indices: the registry guarded by the RwLock
    writer,       \* the request holding the write guard, or NoOne
    readers,      \* the requests holding a read guard
    poisoned,     \* the RwLock's poison flag
    pc,           \* each request's position in its handler
    lines_read,   \* payload lines each bulk request has taken from payload_lines
    items,        \* each bulk request's items vector
    response,     \* each request's response, or NoResponse
    at_start,     \* the registry as each bulk request found it when it took the lock
    observed,     \* the registry as each reader last saw it
    payload       \* the body of the one request of BatchSpec, as its lines

parse_vars == <<context, json, parser, result, parsed>>
bulk_vars  == <<indices, writer, readers, poisoned, pc, lines_read, items,
                response, at_start, observed>>
vars == <<context, json, parser, result, parsed, indices, writer, readers,
          poisoned, pc, lines_read, items, response, at_start, observed, payload>>

---------------------------------------------------------------------------
(* Bounds of the model. *)

\* The longest query text, in words.
MaxWords == 2
\* The longest array handed to or_query::parse.
MaxArrayLen == 2

---------------------------------------------------------------------------
(* JSON values. *)

JNull        == [k |-> "Null"]
JBool(b)     == [k |-> "Boolean", v |-> b]
JI64(n)      == [k |-> "I64", v |-> n]
JU64(n)      == [k |-> "U64", v |-> n]
JF64(x)      == [k |-> "F64", v |-> x]
JString(ws)  == [k |-> "String", v |-> ws]
JArray(xs)   == [k |-> "Array", v |-> xs]
JObject(es)  == [k |-> "Object", v |-> es]

\* The f64 whole + halves/2, in fixed point: 1.0f64 is F64(1, 0), 2.5 is F64(2, 1).
F64(whole, halves) == whole * 2 + halves

\* Json::as_object and Json::as_array.
as_object(j) == IF j.k = "Object" THEN [some |-> TRUE, v |-> j.v] ELSE [some |-> FALSE]
as_array(j)  == IF j.k = "Array"  THEN [some |-> TRUE, v |-> j.v] ELSE [some |-> FALSE]

\* BTreeMap::keys, in iteration order, and BTreeMap::get / Index.
ObjKeys(object) == [i \in 1..Len(object) |-> object[i][1]]
ObjHas(object, key) == \E i \in 1..Len(object) : object[i][1] = key
ObjGet(object, key) == object[CHOOSE i \in 1..Len(object) : object[i][1] = key][2]

---------------------------------------------------------------------------
(* Results, errors and queries. *)

Ok(q)   == [ok |-> TRUE,  v |-> q]
Err(e)  == [ok |-> FALSE, v |-> e]

ExpectedObject         == [k |-> "ExpectedObject"]
ExpectedArray          == [k |-> "ExpectedArray"]
ExpectedObjectOrString == [k |-> "ExpectedObjectOrString"]
ExpectedSingleKey      == [k |-> "ExpectedSingleKey"]
ExpectedFloat          == [k |-> "ExpectedFloat"]
InvalidOperator        == [k |-> "InvalidOperator"]
ExpectedKey(name)      == [k |-> "ExpectedKey", v |-> name]
UnrecognisedKey(name)  == [k |-> "UnrecognisedKey", v |-> name]
UnsupportedQueryType(name) == [k |-> "UnsupportedQueryType", v |-> name]

MatchNone == [k |-> "MatchNone"]
MatchTerm(field, term, matcher, boost) ==
    [k |-> "MatchTerm", field |-> field, term |-> term, matcher |-> matcher,
     boost |-> boost]
Bool(must, must_not, should, filter, minimum_should_match, boost) ==
    [k |-> "Bool", must |-> must, must_not |-> must_not, should |-> should,
     filter |-> filter, minimum_should_match |-> minimum_should_match,
     boost |-> boost]

---------------------------------------------------------------------------
(* query::parser::utils (not among the sources: taken from the spec). *)

\* "optional float, coercible from JSON integer or float; any other JSON
\* type is ExpectedFloat".
parse_float(value) ==
    CASE value.k = "F64" -> Ok(value.v)
      [] value.k = "I64" -> Ok(F64(value.v, 0))
      [] value.k = "U64" -> Ok(F64(value.v, 0))
      [] OTHER -> Err(ExpectedFloat)

\* "one of "or"/"and" ...; unrecognized value is a parse error".
parse_operator(value) ==
    CASE value = JString(<<"or">>)  -> Ok("Or")
      [] value = JString(<<"and">>) -> Ok("And")
      [] OTHER -> Err(InvalidOperator)

---------------------------------------------------------------------------
(* mapping::FieldMapping and Index (not among the sources: from the spec). *)

\* The Lowercase filter on one word.
Lowercase(w) == CASE w = "Baz" -> "baz" [] w = "BAR" -> "bar" [] OTHER -> w

\* The analyzer: one Token per word, lowercased, with its position.
Analyze(ws) ==
    [i \in 1..Len(ws) |-> [term |-> JString(<<Lowercase(ws[i])>>), position |-> i]]

Some(x) == [some |-> TRUE, v |-> x]
None    == [some |-> FALSE]

StringMapping  == [data_type |-> "String"]
IntegerMapping == [data_type |-> "Integer"]
\* FieldMapping::default()
DefaultMapping == StringMapping

\* FieldMapping::process_value_for_query: None when the value cannot be
\* coerced to the field's declared type.
process_value_for_query(mapping, value) ==
    CASE mapping.data_type = "String" /\ value.k = "String" -> Some(Analyze(value.v))
      [] mapping.data_type = "Integer" /\ value.k \in {"I64", "U64"} ->
            Some(<<[term |-> value, position |-> 1]>>)
      [] OTHER -> None

\* Index::get_field_mapping_by_name: an index is a sequence of
\* <<field name, mapping>> pairs.
get_field_mapping_by_name(index, field_name) ==
    IF \E i \in 1..Len(index) : index[i][1] = field_name
    THEN Some(index[CHOOSE i \in 1..Len(index) : index[i][1] = field_name][2])
    ELSE None

---------------------------------------------------------------------------
(* query::parser::match_query *)

\* The configuration before the field's value is read (lines 38-40).
InitialConfig ==
    [has_query_key |-> FALSE, query |-> JNull, boost |-> F64(1, 0), operator |-> "Or"]

\* ConfigStep with the `_ =>` arm ignoring the key instead of rejecting it.
ConfigStepIgnoringUnknown(cfg, key, value) ==
    CASE key = "query" ->
            Ok([cfg EXCEPT !.has_query_key = TRUE, !.query = value])
      [] key = "boost" ->
            LET f == parse_float(value)
            IN  IF f.ok THEN Ok([cfg EXCEPT !.boost = f.v]) ELSE f
      [] key = "operator" ->
            LET o == parse_operator(value)
            IN  IF o.ok THEN Ok([cfg EXCEPT !.operator = o.v]) ELSE o
      [] OTHER -> Ok(cfg)

\* One turn of `for (key, value) in inner_object.iter()`: the match on key.
ConfigStep(cfg, key, value) ==
    CASE key = "query" ->
            Ok([cfg EXCEPT !.has_query_key = TRUE, !.query = value])
      [] key = "boost" ->
            LET f == parse_float(value)
            IN  IF f.ok THEN Ok([cfg EXCEPT !.boost = f.v]) ELSE f
      [] key = "operator" ->
            LET o == parse_operator(value)
            IN  IF o.ok THEN Ok([cfg EXCEPT !.operator = o.v]) ELSE o
      [] OTHER -> Err(UnrecognisedKey(key))

\* The loop over inner_object from its i-th entry on, in BTreeMap order; the
\* first error returns from parse.
RECURSIVE ConfigLoop(_, _, _)
ConfigLoop(inner_object, i, cfg) ==
    IF i > Len(inner_object) THEN Ok(cfg)
    ELSE LET step == ConfigStep(cfg, inner_object[i][1], inner_object[i][2])
         IN  IF step.ok THEN ConfigLoop(inner_object, i + 1, step.v) ELSE step

\* MatchConfig without the `if !has_query_key` check after the loop.
MatchConfigNoQueryCheck(value) ==
    CASE value.k = "String" ->
            Ok([InitialConfig EXCEPT !.query = value])
      [] value.k = "Object" -> ConfigLoop(value.v, 1, InitialConfig)
      [] OTHER -> Err(ExpectedObjectOrString)

\* `match object[field_name]`: the configuration the field's value declares.
MatchConfig(value) ==
    CASE value.k = "String" ->
            Ok([InitialConfig EXCEPT !.query = value])
      [] value.k = "Object" ->
            LET looped == ConfigLoop(value.v, 1, InitialConfig)
            IN  IF ~looped.ok THEN looped
                ELSE IF ~looped.v.has_query_key THEN Err(ExpectedKey("query"))
                ELSE looped
      [] OTHER -> Err(ExpectedObjectOrString)

\* Tokenise giving up on a field without a mapping.
TokeniseMappedOnly(field_mapping, query) ==
    IF field_mapping.some
    THEN process_value_for_query(field_mapping.v, query)
    ELSE None

\* The tokens of the query value, under the field's mapping or the default one.
Tokenise(field_mapping, query) ==
    IF field_mapping.some
    THEN process_value_for_query(field_mapping.v, query)
    ELSE process_value_for_query(DefaultMapping, query)

\* One MatchTerm per token, in token order.
SubQueries(field_name, tokens) ==
    [i \in 1..Len(tokens) |-> MatchTerm(field_name, tokens[i].term, "Exact", F64(1, 0))]

\* Combine with the Or arm taken whatever the operator.
CombineAlwaysOr(operator, sub_queries, boost) ==
    Bool(<<>>, <<>>, sub_queries, <<>>, 1, boost)

\* `match operator`: the Bool that combines the term queries.
Combine(operator, sub_queries, boost) ==
    IF operator = "Or"
    THEN Bool(<<>>, <<>>, sub_queries, <<>>, 1, boost)
    ELSE Bool(sub_queries, <<>>, <<>>, <<>>, 0, boost)

\* parse taking the first key of an object of two or more keys as the field.
match_query_parse_first_key(ctx, j) ==
    LET object == as_object(j)
    IN  IF ~object.some THEN Err(ExpectedObject)
        ELSE IF Len(object.v) = 0 THEN Err(ExpectedSingleKey)
        ELSE LET field_name == ObjKeys(object.v)[1]
                 field_mapping == get_field_mapping_by_name(ctx, field_name)
                 config == MatchConfig(ObjGet(object.v, field_name))
             IN  IF ~config.ok THEN config
                 ELSE LET tokens == Tokenise(field_mapping, config.v.query)
                      IN  IF ~tokens.some THEN Ok(MatchNone)
                          ELSE Ok(Combine(config.v.operator,
                                          SubQueries(field_name, tokens.v),
                                          config.v.boost))

match_query_parse(ctx, j) ==
    LET object == as_object(j)
    IN  IF ~object.some THEN Err(ExpectedObject)
        ELSE IF Len(object.v) # 1 THEN Err(ExpectedSingleKey)
        ELSE LET field_name == ObjKeys(object.v)[1]
                 field_mapping == get_field_mapping_by_name(ctx, field_name)
                 config == MatchConfig(ObjGet(object.v, field_name))
             IN  IF ~config.ok THEN config
                 ELSE LET tokens == Tokenise(field_mapping, config.v.query)
                      IN  IF ~tokens.some THEN Ok(MatchNone)
                          ELSE Ok(Combine(config.v.operator,
                                          SubQueries(field_name, tokens.v),
                                          config.v.boost))

---------------------------------------------------------------------------
(* query::parser::parse (the dispatcher; from the spec) and or_query *)

RECURSIVE parse_query(_, _), OrLoop(_, _, _, _), OrLoopSkippingErrors(_, _, _, _)

\* OrLoop leaving out an element that fails instead of returning its error.
OrLoopSkippingErrors(ctx, filters, i, sub_queries) ==
    IF i > Len(filters)
    THEN [res |-> Ok(Bool(<<>>, <<>>, sub_queries, <<>>, 1, F64(1, 0))),
          parsed |-> Len(filters)]
    ELSE LET r == parse_query(ctx, filters[i])
         IN  OrLoopSkippingErrors(ctx, filters, i + 1,
                                  IF r.ok THEN Append(sub_queries, r.v) ELSE sub_queries)

\* `for filter in filters.iter()` from the i-th element on: the result, and
\* how many elements were handed to parse_query.
OrLoop(ctx, filters, i, sub_queries) ==
    IF i > Len(filters)
    THEN [res |-> Ok(Bool(<<>>, <<>>, sub_queries, <<>>, 1, F64(1, 0))),
          parsed |-> Len(filters)]
    ELSE LET r == parse_query(ctx, filters[i])
         IN  IF r.ok THEN OrLoop(ctx, filters, i + 1, Append(sub_queries, r.v))
             ELSE [res |-> r, parsed |-> i]

or_query_run(ctx, j) ==
    LET filters == as_array(j)
    IN  IF ~filters.some THEN [res |-> Err(ExpectedArray), parsed |-> 0]
        ELSE OrLoop(ctx, filters.v, 1, <<>>)

or_query_parse(ctx, j) == or_query_run(ctx, j).res

\* "Top-level parse expects a JSON object with exactly one key naming the
\* query type; unknown type names are a parse error."
parse_query(ctx, j) ==
    LET object == as_object(j)
    IN  IF ~object.some THEN Err(ExpectedObject)
        ELSE IF Len(object.v) # 1 THEN Err(ExpectedSingleKey)
        ELSE LET query_type == ObjKeys(object.v)[1]
                 body == ObjGet(object.v, query_type)
             IN  CASE query_type = "match" -> match_query_parse(ctx, body)
                   [] query_type = "or" -> or_query_parse(ctx, body)
                   [] OTHER -> Err(UnsupportedQueryType(query_type))

---------------------------------------------------------------------------
(* The parser's inputs. *)

Absent   == [k |-> "Absent"]
NoResult == [k |-> "NoResult"]

Words == {"bar", "Baz"}
Texts == UNION {[1..n -> Words] : n \in 0..MaxWords}

QueryValues    == {JString(t) : t \in Texts} \cup {JU64(7), JNull, JObject(<<>>)}
BoostValues    == {JU64(2), JF64(F64(2, 0)), JF64(F64(2, 1)), JU64(0), JI64(-1),
                   JString(<<"2">>), JArray(<<JU64(2)>>)}
OperatorValues == {JString(<<"or">>), JString(<<"and">>), JString(<<"xor">>), JU64(1)}
\* Keys match_query::parse does not know, before, between and after its own.
UnrecognisedKeys == {"analyzer", "hello", "type"}

\* The object with these entries, in key order; an Absent value is no entry.
ObjectOf(entries) == JObject(SelectSeq(entries, LAMBDA e : e[2] # Absent))

World(keys, key) == IF key \in keys THEN JString(<<"world">>) ELSE Absent

InnerObjects ==
    { ObjectOf(<< <<"analyzer", World(U, "analyzer")>>, <<"boost", b>>,
                  <<"hello", World(U, "hello")>>, <<"operator", o>>,
                  <<"query", q>>, <<"type", World(U, "type")>> >>) :
        q \in QueryValues \cup {Absent}, b \in BoostValues \cup {Absent},
        o \in OperatorValues \cup {Absent}, U \in SUBSET UnrecognisedKeys }

Scalars == {JNull, JBool(TRUE), JU64(123), JI64(-5), JF64(F64(123, 1)),
            JString(<<"foo">>)}

FieldValues ==
    InnerObjects \cup {JString(t) : t \in Texts} \cup Scalars \cup {JArray(<<>>)}

FieldNames == {"age", "foo"}

MatchBodies ==
    {JObject(<< <<f, fv>> >>) : f \in FieldNames, fv \in FieldValues}
    \cup {JObject(<< <<"foo", fv>>, <<"hello", JString(<<"world">>)>> >>) :
             fv \in {JString(<<"bar">>), JObject(<< <<"query", JString(<<"bar">>)>> >>)}}
    \cup {JObject(<<>>), JArray(<<JString(<<"foo">>)>>)}
    \cup Scalars

\* Index::new(), and an index that maps both field names.
EmptyIndex  == <<>>
MappedIndex == << <<"age", IntegerMapping>>, <<"foo", StringMapping>> >>
Contexts == {EmptyIndex, MappedIndex}

MatchOf(fv) == JObject(<< <<"match", JObject(<< <<"foo", fv>> >>)>> >>)

OrElements ==
    { MatchOf(JString(<<"bar">>)),
      MatchOf(JObject(<< <<"boost", JU64(0)>>, <<"operator", JString(<<"and">>)>>,
                         <<"query", JString(<<"bar", "Baz">>)>> >>)),
      MatchOf(JNull),
      MatchOf(JObject(<< <<"boost", JString(<<"2">>)>>,
                         <<"query", JString(<<"bar">>)>> >>)),
      MatchOf(JObject(<<>>)),
      JObject(<< <<"bogus", JNull>> >>),
      JString(<<"a-match-json">>),
      JObject(<< <<"or", JArray(<<>>)>> >>),
      JObject(<< <<"or", JArray(<<MatchOf(JString(<<"Baz">>))>>)>> >>),
      JObject(<< <<"or", JU64(1)>> >>) }

OrBodies ==
    {JArray(xs) : xs \in UNION {[1..n -> OrElements] : n \in 0..MaxArrayLen}}
    \cup {JObject(<<>>), JNull, JU64(1), JString(<<"bar">>)}

---------------------------------------------------------------------------
(* The parser as a state machine: a request is drawn, then parsed. *)

ParseInit ==
    /\ context \in Contexts
    /\ parser \in {"match", "or"}
    /\ json \in IF parser = "match" THEN MatchBodies ELSE OrBodies
    /\ result = NoResult
    /\ parsed = 0

MatchQueryParse ==
    /\ parser = "match"
    /\ result = NoResult
    /\ result' = match_query_parse(context, json)
    /\ UNCHANGED <<context, json, parser, parsed>>

OrQueryParse ==
    /\ parser = "or"
    /\ result = NoResult
    /\ result' = or_query_run(context, json).res
    /\ parsed' = or_query_run(context, json).parsed
    /\ UNCHANGED <<context, json, parser>>

---------------------------------------------------------------------------
(* api::bulk_api::view_post_bulk, under System.indices' RwLock. *)

\* The most lines a bulk payload holds.
MaxLines == 4

Bulks   == {"b1", "b2"}
Readers == {"r1"}
Procs   == Bulks \cup Readers
NoOne   == "none"

NoDoc  == [k |-> "NoDoc"]
DocIds == {"d1", "d2"}

\* The registry at startup: one index, "i1", with a mapping for type "t1".
InitialRegistry ==
    [name \in {"i1"} |-> [mappings |-> {"t1"}, docs |-> [d \in DocIds |-> NoDoc]]]

\* What payload_lines.next() can give: None, an empty line, text that is no
\* JSON, an action line {name: {_id, _type, _index}}, a document.
EndOfInput == [k |-> "None"]
EmptyLine  == [k |-> "Empty"]
Malformed  == [k |-> "Malformed"]
ActionLine(name, id, type, index) ==
    [k |-> "Action", name |-> name,
     params |-> [doc_id |-> id, doc_type |-> type, doc_index |-> index]]
DocLine(body) == [k |-> "Doc", body |-> body]

ActionLines ==
    { ActionLine("index", "d1", "t1", "i1"), ActionLine("index", "d2", "t1", "i1"),
      ActionLine("index", "d1", "t9", "i1"), ActionLine("index", "d1", "t1", "i9"),
      ActionLine("delete", "d1", "t1", "i1") }
DocLines == {DocLine("x"), DocLine("y")}
Lines == ActionLines \cup DocLines \cup {EmptyLine, Malformed}

\* payload_lines.next() after n lines were taken.
NextLines(n) == IF n < MaxLines THEN Lines \cup {EndOfInput} ELSE {EndOfInput}

NoResponse      == [k |-> "NoResponse"]
IndexNotFound   == [k |-> "IndexNotFound"]
MappingNotFound == [k |-> "MappingNotFound"]
BadRequest      == [k |-> "BadRequest"]
Panicked        == [k |-> "Panicked"]
\* json_response!(status::Ok, {"took": items.len(), "items": items})
OkResponse(its) == [k |-> "Ok", took |-> Len(its), its |-> its]

\* What one turn of the loop does: go round again, return a response, or panic.
Continue(reg, its, n) == [k |-> "continue", indices |-> reg, items |-> its, taken |-> n]
Return(reg, resp)     == [k |-> "return", indices |-> reg, response |-> resp]
Panic(reg)            == [k |-> "panic", indices |-> reg]

\* Document::from_json
Document(doc_json) == [k |-> "Document", source |-> doc_json]

\* The "index" arm: the document line is taken and parsed, then the index and
\* the mapping are looked up, then the document is inserted and reported.
IndexArm(reg, its, params, doc_line) ==
    CASE doc_line = EndOfInput -> Panic(reg)
      [] doc_line \in {EmptyLine, Malformed} -> Return(reg, BadRequest)
      [] OTHER ->
            IF params.doc_index \notin DOMAIN reg
            THEN Return(reg, IndexNotFound)
            ELSE IF params.doc_type \notin reg[params.doc_index].mappings
            THEN Return(reg, MappingNotFound)
            ELSE Continue([reg EXCEPT ![params.doc_index].docs[params.doc_id] =
                                          Document(doc_line)],
                          Append(its, [create |-> params]), 2)

\* One turn of `loop { ... }` on the next action line (and, for "index", the
\* line after it).
LoopTurn(reg, its, action_line, doc_line) ==
    CASE action_line \in {EndOfInput, EmptyLine} -> Return(reg, OkResponse(its))
      [] action_line = Malformed -> Return(reg, BadRequest)
      \* a document where an action is expected: its value is no object of
      \* _id, _type and _index, and an unwrap() panics
      [] action_line.k = "Doc" -> Panic(reg)
      [] action_line.k = "Action" /\ action_line.name = "index" ->
            IndexArm(reg, its, action_line.params, doc_line)
      [] OTHER -> Continue(reg, its, 1)

\* RwLock::write: granted when no guard is out.
CanWrite == writer = NoOne /\ readers = {}
\* RwLock::read: granted when no write guard is out.
CanRead == writer = NoOne

\* BulkLock taking the shared guard (read()) where the code takes write().
BulkLockShared(p) ==
    /\ pc[p] = "start"
    /\ CanRead
    /\ IF poisoned
       THEN /\ pc' = [pc EXCEPT ![p] = "done"]
            /\ response' = [response EXCEPT ![p] = Panicked]
            /\ UNCHANGED <<readers, at_start>>
       ELSE /\ pc' = [pc EXCEPT ![p] = "loop"]
            /\ readers' = readers \cup {p}
            /\ at_start' = [at_start EXCEPT ![p] = Some(indices)]
            /\ UNCHANGED response
    /\ UNCHANGED <<indices, writer, poisoned, lines_read, items, observed>>

\* `let mut indices = glob.indices.write().unwrap();` and the locals' setup.
BulkLock(p) ==
    /\ pc[p] = "start"
    /\ CanWrite
    /\ IF poisoned
       THEN /\ pc' = [pc EXCEPT ![p] = "done"]
            /\ response' = [response EXCEPT ![p] = Panicked]
            /\ UNCHANGED <<writer, at_start>>
       ELSE /\ pc' = [pc EXCEPT ![p] = "loop"]
            /\ writer' = p
            /\ at_start' = [at_start EXCEPT ![p] = Some(indices)]
            /\ UNCHANGED response
    /\ UNCHANGED <<indices, readers, poisoned, lines_read, items, observed>>

\* What one turn of the loop on these two lines does to the request's state.
TakeTurn(p, action_line, doc_line) ==
    LET turn == LoopTurn(indices, items[p], action_line, doc_line)
    IN  /\ indices' = turn.indices
        /\ CASE turn.k = "continue" ->
                  /\ items' = [items EXCEPT ![p] = turn.items]
                  /\ lines_read' = [lines_read EXCEPT ![p] = @ + turn.taken]
                  /\ UNCHANGED <<pc, response, writer, poisoned, at_start>>
             [] turn.k = "return" ->
                  /\ response' = [response EXCEPT ![p] = turn.response]
                  /\ pc' = [pc EXCEPT ![p] = "returning"]
                  /\ UNCHANGED <<items, lines_read, writer, poisoned, at_start>>
             [] OTHER ->
                  \* a panic unwinds: the guard is dropped and poisons the lock
                  /\ response' = [response EXCEPT ![p] = Panicked]
                  /\ pc' = [pc EXCEPT ![p] = "done"]
                  /\ writer' = NoOne
                  /\ poisoned' = TRUE
                  /\ items' = [items EXCEPT ![p] = <<>>]
                  /\ at_start' = [at_start EXCEPT ![p] = None]
                  /\ UNCHANGED lines_read

\* One turn of the loop, on lines drawn from the payload.
BulkTurn(p) ==
    /\ pc[p] = "loop"
    /\ \E action_line \in NextLines(lines_read[p]) :
       \E doc_line \in NextLines(lines_read[p] + 1) :
          TakeTurn(p, action_line, doc_line)
    /\ UNCHANGED <<readers, observed>>

\* payload_lines.next() on a payload given whole, after n lines were taken.
LineAfter(ls, n) == IF n < Len(ls) THEN ls[n + 1] ELSE EndOfInput

\* One turn of the loop, on the next lines of the request's payload.
BatchTurn(p) ==
    /\ pc[p] = "loop"
    /\ TakeTurn(p, LineAfter(payload, lines_read[p]), LineAfter(payload, lines_read[p] + 1))
    /\ UNCHANGED <<readers, observed>>

\* The handler returns: its locals, the write guard among them, are dropped.
BulkReturn(p) ==
    /\ pc[p] = "returning"
    /\ pc' = [pc EXCEPT ![p] = "done"]
    /\ writer' = NoOne
    /\ items' = [items EXCEPT ![p] = <<>>]
    /\ at_start' = [at_start EXCEPT ![p] = None]
    /\ UNCHANGED <<indices, readers, poisoned, lines_read, response, observed>>

\* A request that reads the registry (a search, a parse) under a read guard;
\* on a poisoned lock it gets no guard.
ReadLock(r) ==
    /\ pc[r] = "start"
    /\ CanRead
    /\ ~poisoned
    /\ readers' = readers \cup {r}
    /\ pc' = [pc EXCEPT ![r] = "reading"]
    /\ UNCHANGED <<indices, writer, poisoned, lines_read, items, response,
                   at_start, observed>>

ReadObserve(r) ==
    /\ pc[r] = "reading"
    /\ observed' = [observed EXCEPT ![r] = Some(indices)]
    /\ pc' = [pc EXCEPT ![r] = "read"]
    /\ UNCHANGED <<indices, writer, readers, poisoned, lines_read, items,
                   response, at_start>>

ReadUnlock(r) ==
    /\ pc[r] = "read"
    /\ readers' = readers \ {r}
    /\ observed' = [observed EXCEPT ![r] = None]
    /\ pc' = [pc EXCEPT ![r] = "start"]
    /\ UNCHANGED <<indices, writer, poisoned, lines_read, items, response, at_start>>

BulkInit ==
    /\ indices = InitialRegistry
    /\ writer = NoOne
    /\ readers = {}
    /\ poisoned = FALSE
    /\ pc = [p \in Procs |-> "start"]
    /\ lines_read = [p \in Bulks |-> 0]
    /\ items = [p \in Bulks |-> <<>>]
    /\ response = [p \in Procs |-> NoResponse]
    /\ at_start = [p \in Bulks |-> None]
    /\ observed = [r \in Readers |-> None]

---------------------------------------------------------------------------
(* The specifications: Spec runs the parsers, BulkSpec the bulk endpoint   *)
(* on payloads drawn line by line as they are read, BatchSpec one bulk     *)
(* request on a payload given whole.                                       *)

\* No payload is given whole.
NoPayload == payload = <<>>

\* The parser's variables while the bulk endpoint runs.
ParseIdle ==
    /\ context = EmptyIndex
    /\ parser = "match"
    /\ json = JNull
    /\ result = NoResult
    /\ parsed = 0

Init == ParseInit /\ BulkInit /\ NoPayload

Next ==
    \/ MatchQueryParse /\ UNCHANGED <<bulk_vars, payload>>
    \/ OrQueryParse /\ UNCHANGED <<bulk_vars, payload>>

Spec == Init /\ [][Next]_vars

BulkSpecInit == ParseIdle /\ BulkInit /\ NoPayload

BulkNext ==
    \/ \E p \in Bulks : BulkLock(p) /\ UNCHANGED <<parse_vars, payload>>
    \/ \E p \in Bulks : BulkTurn(p) /\ UNCHANGED <<parse_vars, payload>>
    \/ \E p \in Bulks : BulkReturn(p) /\ UNCHANGED <<parse_vars, payload>>
    \/ \E r \in Readers : ReadLock(r) /\ UNCHANGED <<parse_vars, payload>>
    \/ \E r \in Readers : ReadObserve(r) /\ UNCHANGED <<parse_vars, payload>>
    \/ \E r \in Readers : ReadUnlock(r) /\ UNCHANGED <<parse_vars, payload>>

BulkSpec == BulkSpecInit /\ [][BulkNext]_vars

\* The payloads of at most MaxLines lines.
Payloads == UNION {[1..n -> Lines] : n \in 0..MaxLines}

\* The request that BatchSpec runs.
BatchRequest == "b1"

BatchInit == ParseIdle /\ BulkInit /\ payload \in Payloads

BatchNext ==
    \/ BulkLock(BatchRequest) /\ UNCHANGED <<parse_vars, payload>>
    \/ BatchTurn(BatchRequest) /\ UNCHANGED <<parse_vars, payload>>
    \/ BulkReturn(BatchRequest) /\ UNCHANGED <<parse_vars, payload>>

BatchSpec == BatchInit /\ [][BatchNext]_vars

---------------------------------------------------------------------------
(* What a match body declares, read off the JSON alone. *)

MatchDone == parser = "match" /\ result # NoResult
OrDone    == parser = "or" /\ result # NoResult

RecognisedKeys == {"query", "boost", "operator"}

IsNumber(value) == value.k \in {"I64", "U64", "F64"}
IsOperator(value) == value \in {JString(<<"or">>), JString(<<"and">>)}

SingleKey(j) == j.k = "Object" /\ Len(j.v) = 1
FieldOf(j) == j.v[1][1]
ValueOf(j) == j.v[1][2]

\* The indexes of the entries of an inner object that parse rejects by
\* themselves: a key it does not know, a boost that is no number, an operator
\* that is neither "or" nor "and".
UnknownAt(entries) == {i \in 1..Len(entries) : entries[i][1] \notin RecognisedKeys}
BadValueAt(entries) ==
    {i \in 1..Len(entries) :
        \/ entries[i][1] = "boost" /\ ~IsNumber(entries[i][2])
        \/ entries[i][1] = "operator" /\ ~IsOperator(entries[i][2])}
First(S) == CHOOSE i \in S : \A other \in S : i <= other

\* A structurally valid match body: a single field key whose value is a string,
\* or an object with `query` and at most a numeric `boost` and an `operator`.
ValidMatchBody(j) ==
    /\ SingleKey(j)
    /\ \/ ValueOf(j).k = "String"
       \/ /\ ValueOf(j).k = "Object"
          /\ ObjHas(ValueOf(j).v, "query")
          /\ UnknownAt(ValueOf(j).v) = {}
          /\ BadValueAt(ValueOf(j).v) = {}

Declares(j, key) == ValueOf(j).k = "Object" /\ ObjHas(ValueOf(j).v, key)

DeclaredQuery(j) ==
    IF ValueOf(j).k = "String" THEN ValueOf(j) ELSE ObjGet(ValueOf(j).v, "query")
\* The declared boost as a number: n.0 for the JSON integer n, 1.0 when absent.
DeclaredBoost(j) ==
    IF ~Declares(j, "boost") THEN F64(1, 0)
    ELSE LET b == ObjGet(ValueOf(j).v, "boost")
         IN  IF b.k = "F64" THEN b.v ELSE F64(b.v, 0)
DeclaredAnd(j) ==
    Declares(j, "operator") /\ ObjGet(ValueOf(j).v, "operator") = JString(<<"and">>)

\* The mapping the field is analysed with, and the tokens of the query value.
MappingOf(index, j) ==
    LET m == get_field_mapping_by_name(index, FieldOf(j))
    IN  IF m.some THEN m.v ELSE DefaultMapping
TokensOf(index, j) == process_value_for_query(MappingOf(index, j), DeclaredQuery(j))

\* One MatchTerm per token, in token order, on the field, Exact, boost 1.0.
LeavesOf(index, j) ==
    [i \in 1..Len(TokensOf(index, j).v) |->
        [k |-> "MatchTerm", field |-> FieldOf(j), term |-> TokensOf(index, j).v[i].term,
         matcher |-> "Exact", boost |-> F64(1, 0)]]

\* The same body with its integer boost n written as the float n.0.
WithFloatBoost(j) ==
    JObject(<< <<FieldOf(j),
       JObject([i \in 1..Len(ValueOf(j).v) |->
                  IF ValueOf(j).v[i][1] = "boost"
                  THEN <<"boost", JF64(F64(ValueOf(j).v[i][2].v, 0))>>
                  ELSE ValueOf(j).v[i]])>> >>)

---------------------------------------------------------------------------
(* The claims about the parsers, under Spec. *)

\* C1: a structurally valid match body whose text analyses to t1..tn parses to
\* a Bool whose leaves are one MatchTerm per token, in token order (field = the
\* field key, Exact, boost 1.0): in `should` with minimum_should_match 1 under
\* "or" or no operator, in `must` with minimum_should_match 0 under "and";
\* must_not and filter are empty; the Bool's boost is the declared one (1.0 when
\* absent), and an integer boost n parses as the float n.0 does.
C1_MatchBuildsBool ==
    (MatchDone /\ ValidMatchBody(json) /\ TokensOf(context, json).some) =>
        /\ result.ok
        /\ result.v.k = "Bool"
        /\ result.v.must_not = <<>>
        /\ result.v.filter = <<>>
        /\ result.v.boost = DeclaredBoost(json)
        /\ IF DeclaredAnd(json)
           THEN /\ result.v.must = LeavesOf(context, json)
                /\ result.v.should = <<>>
                /\ result.v.minimum_should_match = 0
           ELSE /\ result.v.should = LeavesOf(context, json)
                /\ result.v.must = <<>>
                /\ result.v.minimum_should_match = 1
        /\ (Declares(json, "boost") /\ ObjGet(ValueOf(json).v, "boost").k \in {"I64", "U64"})
              => result = match_query_parse(context, WithFloatBoost(json))

\* C1's case: two tokens under "and" with the integer boost 2.
C1_Witness ==
    /\ MatchDone
    /\ ValidMatchBody(json)
    /\ DeclaredAnd(json)
    /\ Declares(json, "boost")
    /\ ObjGet(ValueOf(json).v, "boost") = JU64(2)
    /\ result.ok
    /\ result.v.k = "Bool"
    /\ Len(result.v.must) = 2
    /\ result.v.boost = F64(2, 0)

\* The results of the dispatcher on the elements of an array.
ElementResult(i) == parse_query(context, json.v[i])
Failing == {i \in 1..Len(json.v) : ~ElementResult(i).ok}

\* C3: or parse fails with ExpectedArray on a non-array; on an array it hands
\* the elements to the dispatcher in array order, returns exactly the error of
\* the first failing element (and parses none after it), and otherwise returns
\* Bool{should = the element results in array order, minimum_should_match = 1,
\* boost = 1.0, must/must_not/filter empty}.
C3_OrParse ==
    OrDone =>
        IF json.k # "Array" THEN result = Err(ExpectedArray) /\ parsed = 0
        ELSE IF Failing # {}
        THEN /\ result = ElementResult(First(Failing))
             /\ parsed = First(Failing)
        ELSE /\ result.ok
             /\ result.v.k = "Bool"
             /\ result.v.should = [i \in 1..Len(json.v) |-> ElementResult(i).v]
             /\ result.v.must = <<>>
             /\ result.v.must_not = <<>>
             /\ result.v.filter = <<>>
             /\ result.v.minimum_should_match = 1
             /\ result.v.boost = F64(1, 0)
             /\ parsed = Len(json.v)

\* C3's case: two elements that fail with different errors.
C3_Witness ==
    /\ OrDone
    /\ json.k = "Array"
    /\ Len(json.v) = 2
    /\ Failing = {1, 2}
    /\ ElementResult(1) # ElementResult(2)
    /\ result = ElementResult(1)
    /\ parsed = 1

\* The match bodies whose field value is an object.
ObjectBody(j) == SingleKey(j) /\ ValueOf(j).k = "Object"

\* C4 as claimed: an object with a key other than query, boost and operator
\* fails with UnrecognisedKey of such a key, whatever the other entries are.
C4_AlwaysUnrecognisedKey ==
    (MatchDone /\ ObjectBody(json) /\ UnknownAt(ValueOf(json).v) # {}) =>
        \E i \in UnknownAt(ValueOf(json).v) :
            result = Err(UnrecognisedKey(ValueOf(json).v[i][1]))

\* The error of an entry that parse rejects by itself.
EntryError(entry) ==
    CASE entry[1] = "boost" -> ExpectedFloat
      [] entry[1] = "operator" -> InvalidOperator
      [] OTHER -> UnrecognisedKey(entry[1])

\* C4, amended: an object with a key other than query, boost and operator
\* always fails, with the error of its first rejected entry in key order:
\* UnrecognisedKey(k) for its first unknown key k unless a `boost` or `operator`
\* entry with an invalid value sorts before k, in which case that entry's error
\* (ExpectedFloat, or the operator error); a missing `query` changes nothing.
C4_FirstRejectedEntry ==
    (MatchDone /\ ObjectBody(json) /\ UnknownAt(ValueOf(json).v) # {}) =>
        LET entries == ValueOf(json).v
            first == First(UnknownAt(entries) \cup BadValueAt(entries))
        IN  result = Err(EntryError(entries[first]))

\* C4's case: the unknown key sorts last, the entries before it are valid, and
\* there is no query.
C4_Witness ==
    /\ MatchDone
    /\ ObjectBody(json)
    /\ ObjKeys(ValueOf(json).v) = <<"boost", "operator", "type">>
    /\ BadValueAt(ValueOf(json).v) = {}
    /\ result = Err(UnrecognisedKey("type"))

\* The match bodies whose field value is an object of recognised keys only,
\* `query` not among them.
NoQueryBody(j) ==
    /\ ObjectBody(j)
    /\ UnknownAt(ValueOf(j).v) = {}
    /\ ~ObjHas(ValueOf(j).v, "query")

\* C5 as claimed: without a `query` key the parse fails with
\* ExpectedKey("query"), whatever the values of `boost` and `operator`.
C5_AlwaysExpectedKey ==
    (MatchDone /\ NoQueryBody(json)) => result = Err(ExpectedKey("query"))

\* C5, amended: without a `query` key, and with a `boost` (if any) that is a
\* JSON number and an `operator` (if any) that is "or" or "and", the parse
\* fails with ExpectedKey("query").
C5_ExpectedKeyAfterValidEntries ==
    (MatchDone /\ NoQueryBody(json) /\ BadValueAt(ValueOf(json).v) = {}) =>
        result = Err(ExpectedKey("query"))

\* C5's case: a valid boost and operator, and no query.
C5_Witness ==
    /\ MatchDone
    /\ NoQueryBody(json)
    /\ Len(ValueOf(json).v) = 2
    /\ BadValueAt(ValueOf(json).v) = {}
    /\ result = Err(ExpectedKey("query"))

\* C6: match parse always returns, and classifies the input's shape in a fixed
\* order: a JSON value that is no object fails with ExpectedObject, an object
\* of zero or of two or more keys with ExpectedSingleKey, a single-key object
\* whose value is neither a string nor an object with ExpectedObjectOrString.
C6_ShapeErrors ==
    MatchDone =>
        /\ json.k # "Object" => result = Err(ExpectedObject)
        /\ (json.k = "Object" /\ Len(json.v) # 1) => result = Err(ExpectedSingleKey)
        /\ (SingleKey(json) /\ ValueOf(json).k \notin {"String", "Object"})
              => result = Err(ExpectedObjectOrString)

\* C6's case: a second key beside a valid field.
C6_Witness ==
    /\ MatchDone
    /\ json.k = "Object"
    /\ Len(json.v) = 2
    /\ result = Err(ExpectedSingleKey)

\* C7: on a structurally valid match body the fallbacks give no error: a field
\* without a mapping is analysed with the default mapping and parsing goes on,
\* and a query value that process_value_for_query turns into None gives
\* Ok(MatchNone), whatever boost and operator are.
C7_FallbacksAreOk ==
    (MatchDone /\ ValidMatchBody(json)) =>
        /\ result.ok
        /\ ~TokensOf(context, json).some => result = Ok(MatchNone)
        /\ (~get_field_mapping_by_name(context, FieldOf(json)).some
            /\ process_value_for_query(DefaultMapping, DeclaredQuery(json)).some)
              => /\ result.v.k = "Bool"
                 /\ Len(result.v.should) + Len(result.v.must)
                      = Len(process_value_for_query(DefaultMapping, DeclaredQuery(json)).v)

\* C7's case: an unmapped field, a query value the default mapping cannot
\* process, a boost and an operator.
C7_Witness ==
    /\ MatchDone
    /\ ValidMatchBody(json)
    /\ ~get_field_mapping_by_name(context, FieldOf(json)).some
    /\ DeclaredQuery(json) = JU64(7)
    /\ Declares(json, "boost")
    /\ DeclaredAnd(json)
    /\ result = Ok(MatchNone)

\* Every Bool node of a query tree.
RECURSIVE BoolNodes(_)
BoolNodes(q) ==
    IF q.k # "Bool" THEN {}
    ELSE {q} \cup UNION {BoolNodes(q.should[i]) : i \in 1..Len(q.should)}
             \cup UNION {BoolNodes(q.must[i]) : i \in 1..Len(q.must)}

\* Every boost recorded in a query tree.
RECURSIVE Boosts(_)
Boosts(q) ==
    CASE q.k = "MatchTerm" -> {q.boost}
      [] q.k = "Bool" ->
            {q.boost} \cup UNION {Boosts(q.should[i]) : i \in 1..Len(q.should)}
                      \cup UNION {Boosts(q.must[i]) : i \in 1..Len(q.must)}
      [] OTHER -> {}

\* C8 as claimed: every Bool node returned by the match parser or the or
\* parser has minimum_should_match <= the number of its should clauses, so 0
\* when should is empty.
C8_MinimumShouldMatchSatisfiable ==
    ((MatchDone \/ OrDone) /\ result.ok) =>
        \A b \in BoolNodes(result.v) : b.minimum_should_match <= Len(b.should)

\* C9 as claimed: every boost recorded in a Query returned by the match parser
\* or the or parser is strictly positive.
C9_BoostPositive ==
    ((MatchDone \/ OrDone) /\ result.ok) => \A boost \in Boosts(result.v) : boost > 0

---------------------------------------------------------------------------
(* The claims about the bulk endpoint, under BulkSpec. *)

\* A bulk request between taking the lock and dropping it.
InBatch(p) == pc[p] \in {"loop", "returning"}
\* A reader between taking its guard and dropping it.
Reading(r) == pc[r] \in {"reading", "read"}

\* C2 as claimed: a batch that returns the not-found response for a missing
\* index or mapping leaves the document store of every index as it was before
\* the batch started.
C2_NotFoundCommitsNothing ==
    \A p \in Bulks :
        (pc[p] = "returning" /\ response[p] \in {IndexNotFound, MappingNotFound})
            => indices = at_start[p].v

\* C10: from before its first line is decoded until its response is produced a
\* bulk request holds the write guard of the registry, and meanwhile no other
\* bulk request is in its batch and no reader holds a guard: two batches never
\* interleave their insertions, and a reader sees the registry only between
\* batches, unchanged for as long as it holds its guard.
C10_BatchIsExclusive ==
    /\ \A p \in Bulks :
          InBatch(p) =>
              /\ writer = p
              /\ \A q \in Bulks \ {p} : ~InBatch(q)
              /\ \A r \in Readers : ~Reading(r)
    /\ \A p \in Bulks :
          (lines_read[p] > 0 /\ pc[p] # "done") => InBatch(p)
    /\ \A r \in Readers : pc[r] = "read" => observed[r] = Some(indices)

\* C10's case: a batch that has applied one action and not yet answered, after
\* another batch has completed, with the reader waiting.
C10_Witness ==
    /\ pc["b1"] = "loop"
    /\ Len(items["b1"]) = 1
    /\ indices # at_start["b1"].v
    /\ pc["b2"] = "done"
    /\ response["b2"].k = "Ok"
    /\ pc["r1"] = "start"

---------------------------------------------------------------------------
(* The claim about unrecognised bulk actions, under BatchSpec.  A batch is *)
(* read off the payload by the wire format: an action line, followed by a  *)
(* document line when the action carries a document.                       *)

IsIndexAction(line)  == line.k = "Action" /\ line.name = "index"
IsOtherAction(line)  == line.k = "Action" /\ line.name # "index"
IsDocumentAt(ls, i)  == i <= Len(ls) /\ ls[i].k = "Doc"

\* The lines an action at line i takes: 2 with its document, 1 without.
LinesOfAction(ls, i) ==
    IF IsIndexAction(ls[i]) \/ IsDocumentAt(ls, i + 1) THEN 2 ELSE 1

\* From line i on the payload is a run of complete actions, each `index`
\* action with its document and on an index and a type the registry has, then
\* the end of the input or the empty line that a final newline leaves.
RECURSIVE WellFormedFrom(_, _)
WellFormedFrom(ls, i) ==
    IF i > Len(ls) THEN TRUE
    ELSE IF ls[i] = EmptyLine THEN i = Len(ls)
    ELSE /\ ls[i].k = "Action"
         /\ IsIndexAction(ls[i]) =>
               /\ IsDocumentAt(ls, i + 1)
               /\ ls[i].params.doc_index \in DOMAIN InitialRegistry
               /\ ls[i].params.doc_type
                     \in InitialRegistry[ls[i].params.doc_index].mappings
         /\ WellFormedFrom(ls, i + LinesOfAction(ls, i))

\* The item of each `index` action from line i on, in payload order.
RECURSIVE ItemsFrom(_, _)
ItemsFrom(ls, i) ==
    IF i > Len(ls) \/ ls[i].k # "Action" THEN <<>>
    ELSE (IF IsIndexAction(ls[i]) THEN <<[create |-> ls[i].params]>> ELSE <<>>)
         \o ItemsFrom(ls, i + LinesOfAction(ls, i))

\* The registry once each `index` action from line i on has put its document.
RECURSIVE RegistryFrom(_, _, _)
RegistryFrom(reg, ls, i) ==
    IF i > Len(ls) \/ ls[i].k # "Action" THEN reg
    ELSE RegistryFrom(
            IF IsIndexAction(ls[i])
            THEN [reg EXCEPT ![ls[i].params.doc_index].docs[ls[i].params.doc_id] =
                                [k |-> "Document", source |-> ls[i + 1]]]
            ELSE reg,
            ls, i + LinesOfAction(ls, i))

\* An unrecognised action with a document line after it.
DocumentAfterOther(ls) ==
    \E i \in 1..Len(ls) : IsOtherAction(ls[i]) /\ IsDocumentAt(ls, i + 1)

\* The request has decoded its payload as the wire format reads it: while it
\* loops, the lines taken so far have put the documents and items of their
\* `index` actions and nothing else; once it has answered, every `index`
\* action of the payload is applied and reported, and `took` is the length of
\* `items`, the number of `index` actions.
DecodedAsBatch ==
    /\ pc[BatchRequest] = "loop" =>
          LET taken == SubSeq(payload, 1, lines_read[BatchRequest])
          IN  /\ items[BatchRequest] = ItemsFrom(taken, 1)
              /\ indices = RegistryFrom(InitialRegistry, taken, 1)
    /\ pc[BatchRequest] \in {"returning", "done"} =>
          /\ response[BatchRequest].k = "Ok"
          /\ response[BatchRequest].its = ItemsFrom(payload, 1)
          /\ response[BatchRequest].took = Len(response[BatchRequest].its)
          /\ response[BatchRequest].took
                = Cardinality({i \in 1..Len(payload) : IsIndexAction(payload[i])})
          /\ indices = RegistryFrom(InitialRegistry, payload, 1)

\* C11 as claimed: in every batch an action whose name is not `index` changes
\* no index and adds no item, and decoding goes on, so that every later
\* `index` action is applied and reported, also when the unrecognised action
\* is followed by a document line; at the end `took` is the length of `items`,
\* the number of `index` actions applied.
C11_UnrecognisedActionSkipped ==
    WellFormedFrom(payload, 1) => DecodedAsBatch

\* What holds of C11: the same, for the batches in which no unrecognised
\* action is followed by a document line.
C11_SkippedWithoutDocument ==
    (WellFormedFrom(payload, 1) /\ ~DocumentAfterOther(payload)) => DecodedAsBatch

\* The case C11_SkippedWithoutDocument is about: an unrecognised action, then
\* an `index` action that is applied and reported.
C11_SkippedWitness ==
    /\ Len(payload) = 3
    /\ IsOtherAction(payload[1])
    /\ IsIndexAction(payload[2])
    /\ pc[BatchRequest] = "done"
    /\ response[BatchRequest].k = "Ok"
    /\ response[BatchRequest].took = 1

=============================================================================
